---- MODULE Spec2Model ----
(***************************************************************************)
(* flutter-setup: the orchestrated run (FlutterSetup.run and its four      *)
(* stages), the SDK manager's reconciliation of the on-disk checkout, the  *)
(* project creator, the bootstrapper, and the pure derivations of Config.  *)
(*                                                                         *)
(* External commands (subprocess.run) are the environment: each one the    *)
(* code runs may succeed or fail, and a handler is modelled as the set of  *)
(* results it can produce over those outcomes.  A result is a record of    *)
(* the disk state it leaves, the log of what it ran and printed, and the   *)
(* exception (if any) that leaves the handler.                             *)
(***************************************************************************)
EXTENDS Integers, Sequences, FiniteSets, TLC

VARIABLES
    config,        \* the shared Config record (core.py:27)
    pc,            \* position of FlutterSetup.run / cli.main
    started,       \* stages started in this run, in order
    raised,        \* the exception leaving run(), "none" if none
    log,           \* what the most recent handler ran and printed
    sdk,           \* the SDK checkout at ~/development/flutter
    zprofile,      \* ~/.zprofile: "absent" or its content
    proj,          \* the project path on disk
    headAtDiverge, \* HEAD when the fast-forward merge failed, "none" otherwise
    exit_code,     \* sys.exit code of cli.main, -1 while running
    calls,         \* how often each handler was invoked directly
    genAttempts,   \* invocations of the project-generation command
    project_name,  \* Config.project_name, a sequence of characters
    package_name,  \* Config.package_name once derived
    raw,           \* the fields given to Config(...) / on the command line
    error_message, \* message of the ValueError raised by Config(...), <<>> if none
    console,       \* what run()'s handler and cli.main print at the end
    sigint         \* the stage during which the operator interrupts, or "none"

vars == <<config, pc, started, raised, log, sdk, zprofile, proj,
          headAtDiverge, exit_code, calls, genAttempts, project_name,
          package_name, raw, error_message, console, sigint>>

Range(s) == {s[i] : i \in 1..Len(s)}

----------------------------------------------------------------------------
(* Config (config.py)                                                      *)

UpdateModes == {"reset", "reclone", "skip"}

PlatformSets == {{"web"}, {"android"}, {"ios"}, {"android", "ios"}}

Configs == [dry_run : BOOLEAN, flutter_update_mode : UpdateModes,
            platforms : PlatformSets]

----------------------------------------------------------------------------
(* The SDK checkout as git sees it.  c0 and c1 are upstream commits of the *)
(* channel branch (c0 the older), cL is a local commit made on top of c0:  *)
(* cL and c1 have diverged.                                                *)

UpstreamCommits == {"c0", "c1"}
Commits == UpstreamCommits \cup {"cL"}

Ancestor(a, b) == a = b \/ (a = "c0" /\ b \in {"c1", "cL"})

AbsentSdk == [state |-> "absent", head |-> "none", local |-> "none", origin |-> "none"]
NoGitSdk  == [state |-> "nogit", head |-> "none", local |-> "none", origin |-> "none"]
Repo(h, l, o) == [state |-> "repo", head |-> h, local |-> l, origin |-> o]

SdkExists(s) == s.state # "absent"
SdkHasGit(s) == s.state = "repo"

FIE == "FlutterInstallationError"

Res(s, l, e) == [sdk |-> s, log |-> l, exc |-> e, diverged |-> "none"]

\* git clone --depth 1 -b <channel>: on success the checkout is at the
\* upstream commit; CalledProcessError becomes FlutterInstallationError.
install_flutter(s) ==
    LET pre == <<"print:installing", "mkdir_parent", "git_clone">>
    IN  {Res(Repo(c, c, c), pre \o <<"print:installed">>, "none") : c \in UpstreamCommits}
        \cup {Res(s, pre \o <<"fail:git_clone">>, FIE)}

\* Variant: the existing tree is not removed before the clone.
reclone_flutter_no_delete(s) ==
    {Res(r.sdk, <<"print:recloning">> \o r.log, r.exc) : r \in install_flutter(s)}

\* shutil.rmtree when the directory exists, then _install_flutter; every
\* Exception is re-raised as FlutterInstallationError.
reclone_flutter(s) ==
    LET pre == <<"print:recloning">>
        cloned(s1, l) == {Res(r.sdk, l \o r.log, r.exc) : r \in install_flutter(s1)}
    IN  IF SdkExists(s)
        THEN cloned(AbsentSdk, pre \o <<"rmtree">>)
             \cup {Res(s1, pre \o <<"rmtree", "fail:rmtree">>, FIE) : s1 \in {s, NoGitSdk}}
        ELSE cloned(s, pre)

\* Variant: the update policy is not consulted, the reset is always issued.
handle_diverged_always_reset(s, mode) ==
    {Res(Repo(s.origin, s.origin, s.origin),
         <<"print:diverged", "git_rev_list", "print:counts", "print:resetting",
           "git_reset_hard", "print:reset">>, "none")}

\* _handle_diverged_branches: skip returns at once; otherwise the counts
\* are computed for display (failure swallowed) and reset mode hard-resets.
handle_diverged_branches(s, mode) ==
    IF mode = "skip"
    THEN {Res(s, <<"print:diverged_skipping">>, "none")}
    ELSE LET counted == {<<"print:diverged", "git_rev_list", "print:counts">>,
                         <<"print:diverged", "git_rev_list", "fail:git_rev_list">>}
         IN  IF mode = "reset"
             THEN UNION {
                    {Res(Repo(s.origin, s.origin, s.origin),
                         l \o <<"print:resetting", "git_reset_hard", "print:reset">>, "none"),
                     Res(s, l \o <<"print:resetting", "git_reset_hard", "fail:git_reset_hard">>, FIE)}
                    : l \in counted}
             ELSE {Res(s, l, "none") : l \in counted}

\* git fetch origin --prune: the remote tracking ref moves to wherever
\* upstream is now.
Fetched(s) == {Repo(s.head, s.local, o) : o \in UpstreamCommits}

\* git checkout <channel>, and on its failure
\* git checkout -b <channel> origin/<channel>.  The first needs the local
\* branch, the second needs it not to exist.
CheckedOut(s) ==
    LET first == IF s.local # "none"
                 THEN {[sdk |-> Repo(s.local, s.local, s.origin),
                        log |-> <<"git_checkout">>, ok |-> TRUE]}
                 ELSE {}
        second == {[sdk |-> Repo(s.origin, s.origin, s.origin),
                    log |-> <<"git_checkout", "fail:git_checkout", "git_checkout_b">>,
                    ok |-> TRUE] : x \in IF s.local = "none" THEN {1} ELSE {}}
        failed == {[sdk |-> s,
                    log |-> <<"git_checkout", "fail:git_checkout", "git_checkout_b",
                              "fail:git_checkout_b">>,
                    ok |-> FALSE]}
    IN  first \cup second \cup failed

\* git merge --ff-only origin/<channel>: moves the branch when it is behind,
\* is a no-op when the remote is already contained, fails when diverged
\* (and may fail for reasons of the working tree).
MergedFF(s) ==
    (IF Ancestor(s.head, s.origin)
     THEN {[sdk |-> Repo(s.origin, s.origin, s.origin), ok |-> TRUE]}
     ELSE IF Ancestor(s.origin, s.head)
     THEN {[sdk |-> s, ok |-> TRUE]}
     ELSE {})
    \cup {[sdk |-> s, ok |-> FALSE]}

\* Variant: a failed fast-forward merge raises like the other commands.
update_flutter_merge_fatal(s, mode) ==
    LET pre == <<"print:updating", "git_remote_set_url", "git_fetch">>
        afterMerge(s2, l) ==
            UNION {IF m.ok
                   THEN {Res(m.sdk, l \o <<"git_merge_ff", "print:fast_forward">>, "none")}
                   ELSE {Res(s2, l \o <<"git_merge_ff", "fail:git_merge_ff">>, FIE)}
                   : m \in MergedFF(s2)}
        afterFetch(s1) ==
            UNION {IF c.ok
                   THEN afterMerge(c.sdk, pre \o c.log)
                   ELSE {Res(c.sdk, pre \o c.log, FIE)}
                   : c \in CheckedOut(s1)}
    IN  {Res(s, pre \o <<"fail:git_fetch">>, FIE)}
        \cup UNION {afterFetch(s1) : s1 \in Fetched(s)}

\* _update_flutter
update_flutter(s, mode) ==
    LET pre == <<"print:updating", "git_remote_set_url", "git_fetch">>
        afterMerge(s2, l) ==
            UNION {IF m.ok
                   THEN {Res(m.sdk, l \o <<"git_merge_ff", "print:fast_forward">>, "none")}
                   ELSE {[sdk |-> r.sdk,
                          log |-> l \o <<"git_merge_ff", "fail:git_merge_ff">> \o r.log,
                          exc |-> r.exc, diverged |-> s2.head]
                         : r \in handle_diverged_branches(s2, mode)}
                   : m \in MergedFF(s2)}
        afterFetch(s1) ==
            UNION {IF c.ok
                   THEN afterMerge(c.sdk, pre \o c.log)
                   ELSE {Res(c.sdk, pre \o c.log, FIE)}
                   : c \in CheckedOut(s1)}
    IN  {Res(s, pre \o <<"fail:git_fetch">>, FIE)}
        \cup UNION {afterFetch(s1) : s1 \in Fetched(s)}

----------------------------------------------------------------------------
(* ~/.zprofile.  Its content is a sequence of pieces of text: "P" is an    *)
(* occurrence of the export line's text (flutter_path), "x" any text that  *)
(* does not contain it, "NL" a newline.                                    *)

PathLine == "P"

AbsentFile == [exists |-> FALSE, content |-> <<>>]
File(c) == [exists |-> TRUE, content |-> c]

\* flutter_path in content
ContainsPathLine(c) == \E i \in 1..Len(c) : c[i] = PathLine

\* Variant: no look for the text, the line is appended every time.
ensure_flutter_path_always_append(z) ==
    [zprofile |-> File(z.content \o <<"NL", PathLine, "NL">>),
     log |-> <<"call:ensure_flutter_path", "append:zprofile", "print:path_added",
               "sys_path_insert">>]

\* _ensure_flutter_path: append when the text is not in the file, create
\* the file when there is none; then the sys.path insertion.
ensure_flutter_path(z) ==
    LET pre == <<"call:ensure_flutter_path">>
        post == <<"sys_path_insert">>
    IN  IF z.exists
        THEN IF ~ContainsPathLine(z.content)
             THEN [zprofile |-> File(z.content \o <<"NL", PathLine, "NL">>),
                   log |-> pre \o <<"append:zprofile", "print:path_added">> \o post]
             ELSE [zprofile |-> z,
                   log |-> pre \o <<"print:path_already">> \o post]
        ELSE [zprofile |-> File(<<PathLine, "NL">>),
              log |-> pre \o <<"create:zprofile", "print:path_added">> \o post]

\* What `flutter doctor -v` can answer: its exit code and whether stderr,
\* stdout mention unaccepted Android licenses; or it cannot be executed.
DoctorOutcomes ==
    [ran : {TRUE}, rc : {0, 1}, err_licenses : BOOLEAN, out_licenses : BOOLEAN]
    \cup {[ran |-> FALSE, rc |-> 1, err_licenses |-> FALSE, out_licenses |-> FALSE]}

\* _handle_android_licenses
handle_android_licenses(platforms) ==
    IF "android" \notin platforms
    THEN <<>>
    ELSE <<"print:licenses_not_accepted", "print:licenses_hint">>

DoctorSaw(o) ==
    <<IF o.rc = 0 THEN "doctor:rc0" ELSE "doctor:rc1">>
    \o (IF o.err_licenses THEN <<"doctor:stderr_licenses">> ELSE <<>>)
    \o (IF o.out_licenses THEN <<"doctor:stdout_licenses">> ELSE <<>>)

\* _run_flutter_doctor: never raises; a non-zero exit prints stderr and
\* looks for the license sentence in stderr.
run_flutter_doctor(platforms, o) ==
    LET pre == <<"call:run_flutter_doctor", "flutter_doctor">>
    IN  IF ~o.ran
        THEN pre \o <<"fail:flutter_doctor", "print:doctor_warning">>
        ELSE pre \o DoctorSaw(o) \o
             (IF o.rc = 0
              THEN <<"print:doctor_passed">>
              ELSE <<"print:doctor_issues">> \o
                   (IF o.err_licenses
                    THEN <<"print:licenses_need_acceptance">>
                         \o handle_android_licenses(platforms)
                    ELSE <<>>))

FRes(s, z, l, e, d) ==
    [sdk |-> s, zprofile |-> z, log |-> l, exc |-> e, diverged |-> d]

\* FlutterManager.ensure_flutter
ensure_flutter(cfg, s, z) ==
    IF cfg.dry_run
    THEN {FRes(s, z, <<"print:DRY RUN: Would manage Flutter SDK">>, "none", "none")}
    ELSE IF cfg.flutter_update_mode = "reclone"
    THEN {FRes(r.sdk, z, r.log, r.exc, "none") : r \in reclone_flutter(s)}
    ELSE LET first == IF ~SdkExists(s) \/ ~SdkHasGit(s)
                      THEN install_flutter(s)
                      ELSE update_flutter(s, cfg.flutter_update_mode)
             path == ensure_flutter_path(z)
         IN  UNION {IF r.exc # "none"
                    THEN {FRes(r.sdk, z, r.log, r.exc, r.diverged)}
                    ELSE {FRes(r.sdk, path.zprofile,
                               r.log \o path.log \o run_flutter_doctor(cfg.platforms, o),
                               "none", r.diverged)
                          : o \in DoctorOutcomes}
                    : r \in first}

----------------------------------------------------------------------------
(* Prerequisite installer (prerequisites.py).  A result is the log and the *)
(* exception leaving the handler.                                          *)

PE == "PrerequisitesError"

PRes(l, e) == [log |-> l, exc |-> e]

\* Sequential composition: B runs only when A returned.
Then(A, B) ==
    UNION {IF a.exc = "none"
           THEN {PRes(a.log \o b.log, b.exc) : b \in B}
           ELSE {a}
           : a \in A}

\* Variant: once the install is started the handler returns.
check_xcode_tools_return_after_install ==
    LET pre == <<"print:checking_xcode", "xcode_select_p">>
        missing == pre \o <<"fail:xcode_select_p", "print:xcode_missing", "xcode_select_install">>
    IN  {PRes(pre \o <<"print:xcode_found">>, "none"),
         PRes(missing \o <<"print:install_initiated">>, "none"),
         PRes(missing \o <<"fail:xcode_select_install">>, PE)}

\* _check_xcode_tools: when xcode-select -p is non-zero the install is
\* started and PrerequisitesError raised, whether the install command
\* returned or failed (CalledProcessError).
check_xcode_tools ==
    LET pre == <<"print:checking_xcode", "xcode_select_p">>
        missing == pre \o <<"fail:xcode_select_p", "print:xcode_missing", "xcode_select_install">>
    IN  {PRes(pre \o <<"print:xcode_found">>, "none"),
         PRes(missing \o <<"print:install_initiated">>, PE),
         PRes(missing \o <<"fail:xcode_select_install">>, PE)}

\* _ensure_homebrew_path: brew shellenv when /opt/homebrew/bin/brew exists;
\* its failure is a warning.
ensure_homebrew_path ==
    {PRes(<<>>, "none"),
     PRes(<<"brew_shellenv", "print:brew_path_configured">>, "none"),
     PRes(<<"brew_shellenv", "fail:brew_shellenv", "print:brew_path_failed">>, "none")}

\* _install_homebrew
install_homebrew ==
    Then({PRes(<<"brew_install_script", "print:brew_installed">>, "none")},
         ensure_homebrew_path)
    \cup {PRes(<<"brew_install_script", "fail:brew_install_script">>, PE)}

\* _check_homebrew: brew --version with check=False; a missing executable
\* is FileNotFoundError, which no handler here catches.
check_homebrew ==
    LET pre == <<"print:checking_brew", "brew_version">>
    IN  Then({PRes(pre \o <<"print:brew_found">>, "none")}, ensure_homebrew_path)
        \cup Then({PRes(pre \o <<"fail:brew_version", "print:brew_missing">>, "none")},
                  install_homebrew)
        \cup {PRes(pre \o <<"notfound:brew">>, "FileNotFoundError")}

RequiredPackages == <<"git", "cocoapods">>
AndroidPackages == <<"temurin", "android-commandlinetools">>

InstallTok ==
    ("git" :> "brew_install:git") @@ ("cocoapods" :> "brew_install:cocoapods")
    @@ ("temurin" :> "brew_install:temurin")
    @@ ("android-commandlinetools" :> "brew_install:android-commandlinetools")

\* Variant: a failed install raises without asking brew list.
install_package_no_list(pkg) ==
    LET cmd == <<InstallTok[pkg]>>
    IN  {PRes(cmd \o <<"print:installed">>, "none"),
         PRes(cmd \o <<"fail:brew_install">>, PE)}

\* One required package: install; on failure brew list decides.
install_package(pkg) ==
    LET cmd == <<InstallTok[pkg]>>
    IN  {PRes(cmd \o <<"print:installed">>, "none"),
         PRes(cmd \o <<"fail:brew_install", "brew_list", "print:already_installed">>, "none"),
         PRes(cmd \o <<"fail:brew_install", "brew_list", "fail:brew_list">>, PE)}

RECURSIVE install_from(_, _)
install_from(pkgs, i) ==
    IF i > Len(pkgs)
    THEN {PRes(<<>>, "none")}
    ELSE Then(install_package(pkgs[i]), install_from(pkgs, i + 1))

\* _install_packages
install_packages == install_from(RequiredPackages, 1)

\* Variant: a double failure raises, as for a required package.
install_android_package_fatal(pkg) ==
    LET cmd == <<InstallTok[pkg]>>
    IN  {PRes(cmd \o <<"print:installed">>, "none"),
         PRes(cmd \o <<"fail:brew_install", "brew_list_cask", "print:already_installed">>, "none"),
         PRes(cmd \o <<"fail:brew_install", "brew_list_cask", "fail:brew_list_cask">>, PE)}

\* One Android cask: as a required package, but a double failure is a
\* warning.
install_android_package(pkg) ==
    LET cmd == <<InstallTok[pkg]>>
    IN  {PRes(cmd \o <<"print:installed">>, "none"),
         PRes(cmd \o <<"fail:brew_install", "brew_list_cask", "print:already_installed">>, "none"),
         PRes(cmd \o <<"fail:brew_install", "brew_list_cask", "fail:brew_list_cask",
                        "print:warn_install_failed">>, "none")}

RECURSIVE android_from(_)
android_from(i) ==
    IF i > Len(AndroidPackages)
    THEN {PRes(<<>>, "none")}
    ELSE Then(install_android_package(AndroidPackages[i]), android_from(i + 1))

\* _setup_android_tools
setup_android_tools == Then({PRes(<<"print:android_tools">>, "none")}, android_from(1))

\* _setup_ios_tools: pod repo update with check=False; an exception is a
\* warning.
setup_ios_tools ==
    {PRes(<<"print:ios_tools", "pod_repo_update", "print:ios_configured">>, "none"),
     PRes(<<"print:ios_tools", "pod_repo_update", "fail:pod_repo_update",
            "print:ios_warning">>, "none")}

\* _setup_platform_tools
setup_platform_tools(platforms) ==
    Then(IF "android" \in platforms THEN setup_android_tools ELSE {PRes(<<>>, "none")},
         IF "ios" \in platforms THEN setup_ios_tools ELSE {PRes(<<>>, "none")})

\* PrerequisitesManager.check_and_install
check_and_install(cfg) ==
    IF cfg.dry_run
    THEN {PRes(<<"print:DRY RUN: Would check and install prerequisites">>, "none")}
    ELSE Then(check_xcode_tools,
         Then(check_homebrew,
         Then(install_packages, setup_platform_tools(cfg.platforms))))

----------------------------------------------------------------------------
(* lib/main.dart as the list content.split("\n") gives.  A line is one of: *)
(*   import_flutter   import 'package:flutter/material.dart';              *)
(*   import_dart      import 'dart:async';                                 *)
(*   import_dotenv    import 'package:flutter_dotenv/flutter_dotenv.dart'; *)
(*   comment_dotenv   a line that mentions flutter_dotenv, not an import   *)
(*   main_open        void main() {                                        *)
(*   main_inline      void main() { runApp(const MyApp()); }               *)
(*   main_arrow       void main() => runApp(const MyApp());                *)
(*   main_async_open  Future<void> main() async {                          *)
(*   dotenv_load      "  await dotenv.load(fileName: ".env");"             *)
(*   load_inline      the load followed by the rest of a main_inline line  *)
(*   code, blank      any other line, the empty line                       *)

SourceLines == {"import_flutter", "import_dart", "import_dotenv", "comment_dotenv",
                "main_open", "main_inline", "main_arrow", "code", "blank"}

\* "flutter_dotenv" in line
HasMarker(line) == line \in {"import_dotenv", "comment_dotenv"}

\* line.strip().startswith("import ") and "package:flutter" in line
IsFlutterImport(line) == line \in {"import_flutter", "import_dotenv"}

\* "void main() {" in line
HasMainOpen(line) == line \in {"main_open", "main_inline"}

\* "flutter_dotenv" in content
ContentHasMarker(lines) == \E i \in 1..Len(lines) : HasMarker(lines[i])

\* The index (from 1) of the first framework import line, 0 if none.
ImportIndex(lines) ==
    IF \E i \in 1..Len(lines) : IsFlutterImport(lines[i])
    THEN CHOOSE i \in 1..Len(lines) :
            /\ IsFlutterImport(lines[i])
            /\ \A j \in 1..(i - 1) : ~IsFlutterImport(lines[j])
    ELSE 0

\* lines.insert(k, x) with k counted from 0
InsertAt(lines, k, x) == SubSeq(lines, 1, k) \o <<x>> \o SubSeq(lines, k + 1, Len(lines))

\* str.replace("void main() {", "Future<void> main() async {\n  await dotenv.load(...);")
\* on the joined text: every line holding the opening becomes two lines.
RECURSIVE ReplaceMain(_)
ReplaceMain(lines) ==
    IF lines = <<>>
    THEN <<>>
    ELSE (IF Head(lines) = "main_open" THEN <<"main_async_open", "dotenv_load">>
          ELSE IF Head(lines) = "main_inline" THEN <<"main_async_open", "load_inline">>
          ELSE <<Head(lines)>>)
         \o ReplaceMain(Tail(lines))

\* Variant: the marker is not looked for.
EditMain_no_marker_check(lines) ==
    ReplaceMain(InsertAt(lines, ImportIndex(lines), "import_dotenv"))

\* The edit of _modify_main_dart on the content of an existing file.
EditMain(lines) ==
    IF ContentHasMarker(lines)
    THEN lines
    ELSE ReplaceMain(InsertAt(lines, ImportIndex(lines), "import_dotenv"))

\* _modify_main_dart: nothing when lib/main.dart does not exist.
modify_main_dart(m) ==
    IF ~m.exists THEN m ELSE File(EditMain(m.content))

\* What `flutter create` generates as lib/main.dart.
GeneratedMain == <<"import_flutter", "blank", "main_open", "code", "blank">>

----------------------------------------------------------------------------
(* The project path (config.project_path) on disk: absent, a regular file, *)
(* or a directory.  The bootstrapper's files are tracked in groups, one    *)
(* per step that writes: `fixed` are the groups holding the bootstrapper's *)
(* fixed contents, `other` the groups holding any other content.          *)

BootFiles == {"vscode", "makefile", "tests", "analysis", "ci", "env", "readme"}

Proj(k, f, o, m) == [kind |-> k, fixed |-> f, other |-> o, main |-> m]

AbsentProj == Proj("absent", {}, {}, AbsentFile)
FileProj == Proj("file", {}, {}, AbsentFile)

\* `flutter create` writes its own README.md, analysis_options.yaml and
\* test/widget_test.dart besides lib/main.dart.
GeneratedProj == Proj("dir", {}, {"readme", "analysis", "tests"}, File(GeneratedMain))

PCE == "ProjectCreationError"

CRes(p, l, e, n) == [proj |-> p, log |-> l, exc |-> e, attempts |-> n]

\* Variant: no test of project_path.exists().
create_project_no_exists_check(cfg, p) ==
    IF cfg.dry_run
    THEN {CRes(p, <<"print:DRY RUN: Would create Flutter project">>, "none", 0)}
    ELSE LET pre == <<"mkdir_output_dir", "print:creating", "flutter_create">>
         IN  {CRes(GeneratedProj, pre \o <<"print:project_created">>, "none", 1),
              CRes(p, pre \o <<"fail:flutter_create">>, PCE, 1)}

\* Variant: no test of config.dry_run.
create_project_no_dry_run(cfg, p) ==
    IF p.kind # "absent"
    THEN {CRes(p, <<"print:exists_skipping_create">>, "none", 0)}
    ELSE LET pre == <<"mkdir_output_dir", "print:creating", "flutter_create">>
         IN  {CRes(GeneratedProj, pre \o <<"print:project_created">>, "none", 1),
              CRes(p, pre \o <<"fail:flutter_create">>, PCE, 1)}

\* ProjectCreator.create_project: a non-zero exit of `flutter create`
\* (which may leave a partial directory) is ProjectCreationError.
create_project(cfg, p) ==
    IF cfg.dry_run
    THEN {CRes(p, <<"print:DRY RUN: Would create Flutter project">>, "none", 0)}
    ELSE IF p.kind # "absent"
    THEN {CRes(p, <<"print:exists_skipping_create">>, "none", 0)}
    ELSE LET pre == <<"mkdir_output_dir", "print:creating", "flutter_create">>
         IN  {CRes(GeneratedProj, pre \o <<"print:project_created">>, "none", 1)}
             \cup {CRes(q, pre \o <<"fail:flutter_create">>, PCE, 1)
                   : q \in {p, Proj("dir", {}, {}, AbsentFile)}}

----------------------------------------------------------------------------
(* Bootstrapper (bootstrap.py).  bootstrap_project calls nine steps in     *)
(* order.  `failing` is the set of steps whose file write or command fails *)
(* in this run; a write under a project path that is not a directory       *)
(* fails too.                                                              *)

BootSteps == <<"vscode", "makefile", "tests", "analysis", "ci", "deps", "env",
               "readme", "format">>

\* _add_dependencies and _format_code: subprocess.run(check=False) inside
\* try/except Exception.
CommandSteps == {"deps", "format"}

FailTok ==
    ("vscode" :> "fail:vscode") @@ ("makefile" :> "fail:makefile")
    @@ ("tests" :> "fail:tests") @@ ("analysis" :> "fail:analysis")
    @@ ("ci" :> "fail:ci") @@ ("deps" :> "fail:deps") @@ ("env" :> "fail:env")
    @@ ("readme" :> "fail:readme") @@ ("format" :> "fail:format")

StepFails(st, p, failing) == st \in failing \/ (st \notin CommandSteps /\ p.kind # "dir")

\* Variant: a file that is already there is left as it is.
Written_keep_existing(p, st) ==
    IF st \in CommandSteps \/ st \in p.other
    THEN p
    ELSE Proj(p.kind, p.fixed \cup {st}, p.other \ {st},
              IF st = "env" THEN modify_main_dart(p.main) ELSE p.main)

\* The files a step leaves when its writes succeed.
Written(p, st) ==
    IF st \in CommandSteps
    THEN p
    ELSE Proj(p.kind, p.fixed \cup {st}, p.other \ {st},
              IF st = "env" THEN modify_main_dart(p.main) ELSE p.main)

BRes(p, l, e) == [proj |-> p, log |-> l, exc |-> e]

\* One step: a command step downgrades its failure to a warning; a step
\* that writes files has no handler, so its OSError leaves the step.
boot_step(st, p, failing) ==
    IF StepFails(st, p, failing)
    THEN IF st \in CommandSteps
         THEN BRes(p, <<st, FailTok[st], "print:warning">>, "none")
         ELSE BRes(p, <<st, FailTok[st]>>, "OSError")
    ELSE BRes(Written(p, st), <<st, "print:created">>, "none")

RECURSIVE boot_from(_, _, _, _)
boot_from(i, p, l, failing) ==
    IF i > Len(BootSteps)
    THEN BRes(p, l, "none")
    ELSE LET r == boot_step(BootSteps[i], p, failing)
         IN  IF r.exc # "none"
             THEN BRes(r.proj, l \o r.log, r.exc)
             ELSE boot_from(i + 1, r.proj, l \o r.log, failing)

\* ProjectBootstrap.bootstrap_project
bootstrap_project(cfg, p, failing) ==
    IF cfg.dry_run
    THEN BRes(p, <<"print:DRY RUN: Would bootstrap development environment">>, "none")
    ELSE boot_from(1, p, <<"print:bootstrapping">>, failing)

----------------------------------------------------------------------------
(* Config.package_name (config.py).  A name is a sequence of characters;  *)
(* U+00C9 is an upper-case letter outside ASCII, U+00E9 its lower case.    *)

LowerLetters == {"a", "b", "e", "m", "p", "s", "t", "y"}
Digits == {"7"}

LowerOf ==
    ("A" :> "a") @@ ("B" :> "b") @@ ("M" :> "m") @@ ("T" :> "t")
    @@ ("U+00C9" :> "U+00E9")

\* str.lower, one character
Lower(c) == IF c \in DOMAIN LowerOf THEN LowerOf[c] ELSE c

\* str.isalpha, one character
IsAlpha(c) == c \in LowerLetters \cup DOMAIN LowerOf \cup {"U+00E9"}

\* re.sub(r'[^a-z0-9_]', '_', name.lower())
Substituted(name) ==
    [i \in 1..Len(name) |->
        IF Lower(name[i]) \in LowerLetters \cup Digits \cup {"_"}
        THEN Lower(name[i])
        ELSE "_"]

RECURSIVE LStrip(_)
LStrip(s) == IF s # <<>> /\ Head(s) = "_" THEN LStrip(Tail(s)) ELSE s

RECURSIVE RStrip(_)
RStrip(s) ==
    IF s # <<>> /\ s[Len(s)] = "_" THEN RStrip(SubSeq(s, 1, Len(s) - 1)) ELSE s

\* Variant: str.lstrip('_')
Strip_leading_only(s) == LStrip(s)

\* str.strip('_')
Strip(s) == RStrip(LStrip(s))

App == <<"a", "p", "p">>

\* Variant: no "app_" prefix for a name that does not start with a letter.
sanitize_package_name_no_prefix(name) ==
    LET stripped == Strip(Substituted(name))
    IN  IF stripped = <<>> THEN <<"a", "p", "p">> ELSE stripped

\* Config._sanitize_package_name
sanitize_package_name(name) ==
    LET subbed == Substituted(name)
        prefixed == IF subbed # <<>> /\ ~IsAlpha(subbed[1])
                    THEN App \o <<"_">> \o subbed
                    ELSE subbed
        stripped == Strip(prefixed)
    IN  IF stripped = <<>> THEN App ELSE stripped

----------------------------------------------------------------------------
(* Config construction: __post_init__ runs _validate (config.py).  A       *)
(* platform is a token as typed; "Android" and "IOS" differ from the       *)
(* enumeration members only in case, "invalid" (tests/test_config.py) is   *)
(* no platform.  An error message is the text followed by the value it     *)
(* names.                                                                  *)

valid_platforms == {"ios", "android", "macos", "linux", "windows", "web"}

PlatformTokens == {"ios", "android", "web", "Android", "IOS", "invalid"}

PlatformLowerOf == ("Android" :> "android") @@ ("IOS" :> "ios")

\* platform.lower()
PlatformLower(t) == IF t \in DOMAIN PlatformLowerOf THEN PlatformLowerOf[t] ELSE t

Templates == {"app", "plugin"}
IosLanguages == {"swift", "objc"}
AndroidLanguages == {"kotlin", "java"}
Channels == {"stable", "beta"}

EmptyNameMessage == <<"Project name cannot be empty">>
NoPlatformMessage == <<"At least one platform must be specified">>
InvalidPlatformMessage(t) == <<"Invalid platform: ", t>>
InvalidIosLanguageMessage(l) == <<"Invalid iOS language: ", l>>
InvalidAndroidLanguageMessage(l) == <<"Invalid Android language: ", l>>

\* `platform.lower() not in valid_platforms`
PlatformRejected(t) == PlatformLower(t) \notin valid_platforms

\* The platform named by the `for platform in self.platforms` loop: the
\* first one the test rejects, 0 when the loop ends without raising.
FirstRejected(platforms) ==
    IF \E i \in 1..Len(platforms) : PlatformRejected(platforms[i])
    THEN CHOOSE i \in 1..Len(platforms) :
            /\ PlatformRejected(platforms[i])
            /\ \A j \in 1..(i - 1) : ~PlatformRejected(platforms[j])
    ELSE 0

\* Variant: the platform checks come before the project-name check.
validate_platforms_first(name, f) ==
    IF f.platforms = <<>> THEN NoPlatformMessage
    ELSE IF FirstRejected(f.platforms) # 0
         THEN InvalidPlatformMessage(f.platforms[FirstRejected(f.platforms)])
    ELSE IF name = <<>> THEN EmptyNameMessage
    ELSE IF f.template = "plugin" /\ f.ios_language \notin IosLanguages
         THEN InvalidIosLanguageMessage(f.ios_language)
    ELSE IF f.template = "plugin" /\ f.android_language \notin AndroidLanguages
         THEN InvalidAndroidLanguageMessage(f.android_language)
    ELSE <<>>

\* Config._validate: the message of the ValueError it raises, <<>> when it
\* returns.
validate(name, f) ==
    IF name = <<>> THEN EmptyNameMessage
    ELSE IF f.platforms = <<>> THEN NoPlatformMessage
    ELSE IF FirstRejected(f.platforms) # 0
         THEN InvalidPlatformMessage(f.platforms[FirstRejected(f.platforms)])
    ELSE IF f.template = "plugin" /\ f.ios_language \notin IosLanguages
         THEN InvalidIosLanguageMessage(f.ios_language)
    ELSE IF f.template = "plugin" /\ f.android_language \notin AndroidLanguages
         THEN InvalidAndroidLanguageMessage(f.android_language)
    ELSE <<>>

\* What the stages read of a constructed Config; `platforms` holds the
\* tokens as given (the stages only test membership and join them).
ConfigOf(f) ==
    [dry_run |-> f.dry_run, flutter_update_mode |-> f.flutter_update_mode,
     platforms |-> Range(f.platforms)]

\* Config.platforms_csv
platforms_csv(f) == f.platforms

NoConfig == [dry_run |-> FALSE, flutter_update_mode |-> "none", platforms |-> {}]

----------------------------------------------------------------------------
(* Bounds of the model.                                                    *)

MaxNameLen == 3     \* longest enumerated project name
MaxLines == 3       \* longest enumerated lib/main.dart, in lines
MaxFileLen == 2     \* longest enumerated ~/.zprofile, in pieces
MaxCalls == 2       \* direct invocations of one handler
MaxFailures == 2    \* bootstrap steps failing in one run
MaxPlatforms == 2   \* longest platform list given to Config(...)
MaxArgs == 1        \* most platform arguments on an enumerated command line

SeqsUpTo(S, n) == UNION {[1..k -> S] : k \in 0..n}

FailingSets == {F \in SUBSET Range(BootSteps) : Cardinality(F) <= MaxFailures}

NoCalls == [path |-> 0, create |-> 0, dart |-> 0]

----------------------------------------------------------------------------
(* FlutterSetup.run (core.py) and cli.main around it.                      *)

StageOrder == <<"prerequisites", "flutter", "create", "bootstrap">>

\* Fields from which Config(...) constructs cfg: its platforms in some
\* order, the command line's defaults elsewhere, not verbose.
RawOf(cfg) ==
    [platforms |-> CHOOSE q \in [1..Cardinality(cfg.platforms) -> cfg.platforms] :
                        Range(q) = cfg.platforms,
     channel |-> "stable", template |-> "app", ios_language |-> "swift",
     android_language |-> "kotlin",
     flutter_update_mode |-> cfg.flutter_update_mode,
     dry_run |-> cfg.dry_run, verbose |-> FALSE]

LastStarted == IF started = <<>> THEN "none" ELSE started[Len(started)]

\* What a stage's call ends with: KeyboardInterrupt when the operator
\* interrupts during that stage, else what the handler raised.
StageExc(stage, exc) == IF sigint = stage THEN "KeyboardInterrupt" ELSE exc

\* Variant: the wrappers catch every BaseException.
Wrap_catch_all(exc, typed) == IF exc = "none" THEN "none" ELSE typed

\* The _run_* wrappers: `except Exception as e: raise <typed>(...)`;
\* KeyboardInterrupt is no Exception and passes through.
Wrap(exc, typed) == IF exc \in {"none", "KeyboardInterrupt"} THEN exc ELSE typed

\* Variant: the next stage runs whether or not the call raised.
AfterStage_continue(exc, next) == next

\* The try block of run(): the next statement runs only when the call
\* returned; an exception leaves run() through `except Exception: raise`.
AfterStage(exc, next) == IF exc = "none" THEN next ELSE "raised"

SdkInit == {AbsentSdk, NoGitSdk, Repo("c0", "c0", "c0"), Repo("cL", "cL", "c0"),
            Repo("cL", "c0", "c0"), Repo("c1", "none", "c0")}

ZprofileInit == {AbsentFile, File(<<"x", "NL">>), File(<<"x", "NL", PathLine, "NL">>)}

ProjInit == {AbsentProj, FileProj,
             Proj("dir", {}, BootFiles, File(GeneratedMain)),
             Proj("dir", BootFiles, {}, File(EditMain(GeneratedMain)))}

Init ==
    /\ config \in Configs
    /\ pc = "prerequisites"
    /\ started = <<>>
    /\ raised = "none"
    /\ log = <<>>
    /\ sdk \in SdkInit
    /\ zprofile \in ZprofileInit
    /\ proj \in ProjInit
    /\ headAtDiverge = "none"
    /\ exit_code = -1
    /\ calls = NoCalls
    /\ genAttempts = 0
    /\ project_name = <<"a">>
    /\ package_name = <<>>
    /\ raw = RawOf(config)
    /\ error_message = <<>>
    /\ console = <<>>
    /\ sigint = "none"

\* _run_prerequisites
run_prerequisites ==
    /\ pc = "prerequisites"
    /\ \E r \in check_and_install(config) :
        /\ started' = Append(started, "prerequisites")
        /\ log' = r.log
        /\ raised' = Wrap(StageExc("prerequisites", r.exc), PE)
        /\ pc' = AfterStage(StageExc("prerequisites", r.exc), "flutter")
    /\ UNCHANGED <<config, sdk, zprofile, proj, headAtDiverge, exit_code, calls,
                   genAttempts, project_name, package_name,
                   raw, error_message, console, sigint>>

\* _run_flutter_installation
run_flutter_installation ==
    /\ pc = "flutter"
    /\ \E r \in ensure_flutter(config, sdk, zprofile) :
        /\ started' = Append(started, "flutter")
        /\ log' = r.log
        /\ sdk' = r.sdk
        /\ zprofile' = r.zprofile
        /\ headAtDiverge' = r.diverged
        /\ raised' = Wrap(StageExc("flutter", r.exc), FIE)
        /\ pc' = AfterStage(StageExc("flutter", r.exc), "create")
    /\ UNCHANGED <<config, proj, exit_code, calls, genAttempts, project_name,
                   package_name,
                   raw, error_message, console, sigint>>

\* _run_project_creation
run_project_creation ==
    /\ pc = "create"
    /\ \E r \in create_project(config, proj) :
        /\ started' = Append(started, "create")
        /\ log' = r.log
        /\ proj' = r.proj
        /\ genAttempts' = genAttempts + r.attempts
        /\ raised' = Wrap(StageExc("create", r.exc), PCE)
        /\ pc' = AfterStage(StageExc("create", r.exc), "bootstrap")
    /\ UNCHANGED <<config, sdk, zprofile, headAtDiverge, exit_code, calls,
                   project_name, package_name,
                   raw, error_message, console, sigint>>

\* _run_bootstrap
run_bootstrap ==
    /\ pc = "bootstrap"
    /\ \E failing \in FailingSets :
        LET r == bootstrap_project(config, proj, failing)
        IN  /\ started' = Append(started, "bootstrap")
            /\ log' = r.log
            /\ proj' = r.proj
            /\ raised' = Wrap(StageExc("bootstrap", r.exc), "FlutterSetupError")
            /\ pc' = AfterStage(StageExc("bootstrap", r.exc), "next_steps")
    /\ UNCHANGED <<config, sdk, zprofile, headAtDiverge, exit_code, calls,
                   genAttempts, project_name, package_name,
                   raw, error_message, console, sigint>>

\* _show_next_steps, after which run() returns
show_next_steps ==
    /\ pc = "next_steps"
    /\ log' = <<"print:setup_completed", "print:next_steps">>
    /\ pc' = "returned"
    /\ UNCHANGED <<config, started, raised, sdk, zprofile, proj, headAtDiverge,
                   exit_code, calls, genAttempts, project_name, package_name,
                   raw, error_message, console, sigint>>

\* FlutterSetupError and its subclasses (exceptions.py)
FlutterSetupErrors == {"FlutterSetupError", PE, FIE, PCE}

\* BaseExceptions that are no Exception
NonExceptions == {"KeyboardInterrupt", "SystemExit"}

\* `except Exception as e:` of run(): print "Setup failed" and re-raise.
run_except(exc) ==
    IF exc = "none" \/ exc \in NonExceptions THEN <<>> ELSE <<"print:setup_failed">>

\* console.print_exception() under `if verbose:`
print_exception(verbose) == IF verbose THEN <<"print:traceback">> ELSE <<>>

\* The end of cli.main's try block and its except clauses: what is printed
\* and the code the process exits with.  SystemExit is the sys.exit(1) of
\* the try block itself, which no clause catches.
main_handlers(exc, verbose) ==
    IF exc = "none"
    THEN [console |-> <<"print:completed_successfully">>, code |-> 0]
    ELSE IF exc \in FlutterSetupErrors
    THEN [console |-> <<"print:setup_failed">> \o print_exception(verbose), code |-> 1]
    ELSE IF exc = "KeyboardInterrupt"
    THEN [console |-> <<"print:interrupted_by_user">>, code |-> 1]
    ELSE IF exc = "SystemExit"
    THEN [console |-> <<>>, code |-> 1]
    ELSE [console |-> <<"print:unexpected_error">> \o print_exception(verbose), code |-> 1]

\* What follows the stages: an exception leaves run() through its except
\* clause and reaches cli.main's clauses; otherwise run() returns and
\* cli.main prints its last line.
main_exit ==
    /\ pc \in {"returned", "raised"}
    /\ LET h == main_handlers(raised, raw.verbose)
       IN  /\ console' = console \o run_except(raised) \o h.console
           /\ exit_code' = h.code
    /\ pc' = "exited"
    /\ UNCHANGED <<config, started, raised, log, sdk, zprofile, proj, headAtDiverge,
                   calls, genAttempts, project_name, package_name,
                   raw, error_message, sigint>>

Next ==
    \/ run_prerequisites
    \/ run_flutter_installation
    \/ run_project_creation
    \/ run_bootstrap
    \/ show_next_steps
    \/ main_exit

Spec == Init /\ [][Next]_vars

----------------------------------------------------------------------------
(* Handlers invoked directly and repeatedly on one disk, as a rerun of the *)
(* tool invokes them: _ensure_flutter_path and create_project.             *)

ZprofileContents ==
    {c \in SeqsUpTo({PathLine, "x", "NL"}, MaxFileLen) :
        Cardinality({i \in 1..Len(c) : c[i] = PathLine}) <= 1}

InitUnit ==
    /\ config \in Configs
    /\ pc = "unit"
    /\ started = <<>>
    /\ raised = "none"
    /\ log = <<>>
    /\ sdk = Repo("c0", "c0", "c0")
    /\ zprofile \in {AbsentFile} \cup {File(c) : c \in ZprofileContents}
    /\ proj \in ProjInit
    /\ headAtDiverge = "none"
    /\ exit_code = -1
    /\ calls = NoCalls
    /\ genAttempts = 0
    /\ project_name = <<"a">>
    /\ package_name = <<>>
    /\ raw = RawOf(config)
    /\ error_message = <<>>
    /\ console = <<>>
    /\ sigint = "none"

call_ensure_flutter_path ==
    /\ pc = "unit"
    /\ calls.path < MaxCalls
    /\ LET r == ensure_flutter_path(zprofile)
       IN  /\ zprofile' = r.zprofile
           /\ log' = r.log
    /\ calls' = [calls EXCEPT !.path = @ + 1]
    /\ raised' = "none"
    /\ UNCHANGED <<config, pc, started, sdk, proj, headAtDiverge, exit_code,
                   genAttempts, project_name, package_name,
                   raw, error_message, console, sigint>>

call_create_project ==
    /\ pc = "unit"
    /\ calls.create < MaxCalls
    /\ \E r \in create_project(config, proj) :
        /\ proj' = r.proj
        /\ log' = r.log
        /\ raised' = r.exc
        /\ genAttempts' = genAttempts + r.attempts
    /\ calls' = [calls EXCEPT !.create = @ + 1]
    /\ UNCHANGED <<config, pc, started, sdk, zprofile, headAtDiverge, exit_code,
                   project_name, package_name,
                   raw, error_message, console, sigint>>

NextUnit == call_ensure_flutter_path \/ call_create_project

SpecUnit == InitUnit /\ [][NextUnit]_vars

----------------------------------------------------------------------------
(* _modify_main_dart applied repeatedly to one lib/main.dart.              *)

InitDart ==
    /\ config = [dry_run |-> FALSE, flutter_update_mode |-> "reset", platforms |-> {"web"}]
    /\ pc = "dart"
    /\ started = <<>>
    /\ raised = "none"
    /\ log = <<>>
    /\ sdk = Repo("c0", "c0", "c0")
    /\ zprofile = AbsentFile
    /\ \E m \in {AbsentFile} \cup {File(c) : c \in SeqsUpTo(SourceLines, MaxLines) \ {<<>>}} :
        proj = Proj("dir", {}, {}, m)
    /\ headAtDiverge = "none"
    /\ exit_code = -1
    /\ calls = NoCalls
    /\ genAttempts = 0
    /\ project_name = <<"a">>
    /\ package_name = <<>>
    /\ raw = RawOf(config)
    /\ error_message = <<>>
    /\ console = <<>>
    /\ sigint = "none"

call_modify_main_dart ==
    /\ pc = "dart"
    /\ calls.dart < MaxCalls
    /\ proj' = [proj EXCEPT !.main = modify_main_dart(@)]
    /\ calls' = [calls EXCEPT !.dart = @ + 1]
    /\ UNCHANGED <<config, pc, started, raised, log, sdk, zprofile, headAtDiverge,
                   exit_code, genAttempts, project_name, package_name,
                   raw, error_message, console, sigint>>

NextDart == call_modify_main_dart

SpecDart == InitDart /\ [][NextDart]_vars

----------------------------------------------------------------------------
(* Config.package_name read once for a project name.                       *)

NameChars == {"a", "B", "7", "_", "!", "U+00C9"}

\* "My Test App!" (tests/test_config.py)
ExampleName == <<"M", "y", " ", "T", "e", "s", "t", " ", "A", "p", "p", "!">>
ExamplePackage == <<"m", "y", "_", "t", "e", "s", "t", "_", "a", "p", "p">>

ProjectNames == (SeqsUpTo(NameChars, MaxNameLen) \ {<<>>}) \cup {ExampleName}

InitName ==
    /\ config = [dry_run |-> FALSE, flutter_update_mode |-> "reset", platforms |-> {"web"}]
    /\ pc = "name"
    /\ started = <<>>
    /\ raised = "none"
    /\ log = <<>>
    /\ sdk = AbsentSdk
    /\ zprofile = AbsentFile
    /\ proj = AbsentProj
    /\ headAtDiverge = "none"
    /\ exit_code = -1
    /\ calls = NoCalls
    /\ genAttempts = 0
    /\ project_name \in ProjectNames
    /\ package_name = <<>>
    /\ raw = RawOf(config)
    /\ error_message = <<>>
    /\ console = <<>>
    /\ sigint = "none"

read_package_name ==
    /\ pc = "name"
    /\ package_name' = sanitize_package_name(project_name)
    /\ pc' = "named"
    /\ UNCHANGED <<config, started, raised, log, sdk, zprofile, proj, headAtDiverge,
                   exit_code, calls, genAttempts, project_name,
                   raw, error_message, console, sigint>>

NextName == read_package_name

SpecName == InitName /\ [][NextName]_vars

----------------------------------------------------------------------------
(* Config(...) constructed directly from raw fields, as the tests do.      *)

ConfigNames == {<<>>, <<"a">>, ExampleName}

ConfigFields ==
    [platforms : SeqsUpTo(PlatformTokens, MaxPlatforms),
     channel : {"stable"}, template : Templates,
     ios_language : {"swift", "cobol"}, android_language : {"kotlin", "basic"},
     flutter_update_mode : {"reset"}, dry_run : {FALSE}, verbose : {FALSE}]

InitConfig ==
    /\ config = NoConfig
    /\ pc = "construct"
    /\ started = <<>>
    /\ raised = "none"
    /\ log = <<>>
    /\ sdk = AbsentSdk
    /\ zprofile = AbsentFile
    /\ proj = AbsentProj
    /\ headAtDiverge = "none"
    /\ exit_code = -1
    /\ calls = NoCalls
    /\ genAttempts = 0
    /\ project_name \in ConfigNames
    /\ package_name = <<>>
    /\ raw \in ConfigFields
    /\ error_message = <<>>
    /\ console = <<>>
    /\ sigint = "none"

\* Config.__init__ followed by __post_init__
construct_config ==
    /\ pc = "construct"
    /\ LET msg == validate(project_name, raw)
       IN  /\ error_message' = msg
           /\ raised' = IF msg = <<>> THEN "none" ELSE "ValueError"
           /\ config' = IF msg = <<>> THEN ConfigOf(raw) ELSE config
    /\ pc' = "constructed"
    /\ UNCHANGED <<started, log, sdk, zprofile, proj, headAtDiverge, exit_code,
                   calls, genAttempts, project_name, package_name, raw, console,
                   sigint>>

NextConfig == construct_config

SpecConfig == InitConfig /\ [][NextConfig]_vars

----------------------------------------------------------------------------
(* The tool run from the command line: cli.main from the parsing of the   *)
(* arguments to the exit code, the operator possibly interrupting one of  *)
(* the stages.                                                             *)

\* click rejects the command line before main's body runs: no platform for
\* the required variadic argument, or an option value outside its Choice.
UsageError(f) ==
    \/ f.platforms = <<>>
    \/ f.channel \notin Channels
    \/ f.template \notin Templates
    \/ f.ios_language \notin IosLanguages
    \/ f.android_language \notin AndroidLanguages
    \/ f.flutter_update_mode \notin UpdateModes

\* Exit code of a click command for a usage error
UsageExitCode == 2

CommandLines ==
    [platforms : SeqsUpTo(PlatformTokens, MaxArgs),
     channel : {"stable", "dev"}, template : {"app"},
     ios_language : {"swift"}, android_language : {"kotlin"},
     flutter_update_mode : UpdateModes, dry_run : BOOLEAN, verbose : BOOLEAN]

InitCli ==
    /\ config = NoConfig
    /\ pc = "cli"
    /\ started = <<>>
    /\ raised = "none"
    /\ log = <<>>
    /\ sdk = AbsentSdk
    /\ zprofile = AbsentFile
    /\ proj = AbsentProj
    /\ headAtDiverge = "none"
    /\ exit_code = -1
    /\ calls = NoCalls
    /\ genAttempts = 0
    /\ project_name \in {<<>>, <<"a">>}
    /\ package_name = <<>>
    /\ raw \in CommandLines
    /\ error_message = <<>>
    /\ console = <<>>
    /\ sigint \in {"none"} \cup Range(StageOrder)

\* cli.main up to the call of setup.run(): click's parsing, the banner,
\* the platform test and Config(...).
main_start ==
    /\ pc = "cli"
    /\ IF UsageError(raw)
       THEN /\ console' = <<"print:usage">>
            /\ exit_code' = UsageExitCode
            /\ pc' = "exited"
            /\ UNCHANGED <<config, raised, error_message>>
       ELSE IF raw.platforms = <<>>
       THEN /\ console' = <<"print:banner", "print:platform_required">>
                              \o main_handlers("SystemExit", raw.verbose).console
            /\ exit_code' = main_handlers("SystemExit", raw.verbose).code
            /\ pc' = "exited"
            /\ raised' = "SystemExit"
            /\ UNCHANGED <<config, error_message>>
       ELSE LET msg == validate(project_name, raw)
            IN  IF msg # <<>>
                THEN /\ console' = <<"print:banner">>
                                       \o main_handlers("ValueError", raw.verbose).console
                     /\ exit_code' = main_handlers("ValueError", raw.verbose).code
                     /\ pc' = "exited"
                     /\ raised' = "ValueError"
                     /\ error_message' = msg
                     /\ UNCHANGED config
                ELSE /\ console' = <<"print:banner">>
                     /\ config' = ConfigOf(raw)
                     /\ pc' = "prerequisites"
                     /\ UNCHANGED <<exit_code, raised, error_message>>
    /\ UNCHANGED <<started, log, sdk, zprofile, proj, headAtDiverge, calls,
                   genAttempts, project_name, package_name, raw, sigint>>

NextCli == main_start \/ Next

SpecCli == InitCli /\ [][NextCli]_vars

----------------------------------------------------------------------------
(* check_and_install invoked directly on one Config.                      *)

InitPrereq ==
    /\ config \in Configs
    /\ pc = "prereq"
    /\ started = <<>>
    /\ raised = "none"
    /\ log = <<>>
    /\ sdk = AbsentSdk
    /\ zprofile = AbsentFile
    /\ proj = AbsentProj
    /\ headAtDiverge = "none"
    /\ exit_code = -1
    /\ calls = NoCalls
    /\ genAttempts = 0
    /\ project_name = <<"a">>
    /\ package_name = <<>>
    /\ raw = RawOf(config)
    /\ error_message = <<>>
    /\ console = <<>>
    /\ sigint = "none"

call_check_and_install ==
    /\ pc = "prereq"
    /\ \E r \in check_and_install(config) :
        /\ log' = r.log
        /\ raised' = r.exc
    /\ pc' = "prereq_done"
    /\ UNCHANGED <<config, started, sdk, zprofile, proj, headAtDiverge, exit_code,
                   calls, genAttempts, project_name, package_name, raw,
                   error_message, console, sigint>>

NextPrereq == call_check_and_install

SpecPrereq == InitPrereq /\ [][NextPrereq]_vars

----------------------------------------------------------------------------
(* Properties.                                                             *)

IsPrefix(s, q) == Len(s) <= Len(q) /\ \A i \in 1..Len(s) : s[i] = q[i]

StageError ==
    ("prerequisites" :> PE) @@ ("flutter" :> FIE) @@ ("create" :> PCE)
    @@ ("bootstrap" :> "FlutterSetupError")

\* C1: run() starts the stages in the order prerequisites, SDK manager,
\* project creator, bootstrapper; once a stage has raised, the run is left
\* with that stage's error and no later stage is started.
C1_StagesInOrder ==
    /\ [](/\ IsPrefix(started, StageOrder)
          /\ pc \in Range(StageOrder) =>
                Len(started) < Len(StageOrder) /\ StageOrder[Len(started) + 1] = pc
          /\ raised # "none" =>
                pc \in {"raised", "exited"} /\ raised = StageError[LastStarted])
    /\ [][raised # "none" => started' = started]_vars

C1_Witness ==
    /\ pc = "exited"
    /\ started = <<"prerequisites", "flutter">>
    /\ raised = FIE
    /\ exit_code = 1

DryRunMessage ==
    ("prerequisites" :> "print:DRY RUN: Would check and install prerequisites")
    @@ ("flutter" :> "print:DRY RUN: Would manage Flutter SDK")
    @@ ("create" :> "print:DRY RUN: Would create Flutter project")
    @@ ("bootstrap" :> "print:DRY RUN: Would bootstrap development environment")

\* C2: with dry_run set, every stage that has run has printed its
\* intention message and nothing else (no external command, no write), the
\* SDK checkout, the shell startup file and the project path are never
\* changed, and no stage raises.
C2_DryRunSuppresses ==
    /\ [](config.dry_run =>
            /\ raised = "none"
            /\ pc # "raised"
            /\ (started # <<>> /\ pc \notin {"returned", "exited"}) =>
                    log = <<DryRunMessage[LastStarted]>>
            /\ pc = "exited" => exit_code = 0 /\ started = StageOrder)
    /\ [][config.dry_run => UNCHANGED <<sdk, zprofile, proj, genAttempts>>]_vars

C2_Witness ==
    /\ config.dry_run
    /\ pc = "exited"
    /\ started = StageOrder
    /\ sdk = AbsentSdk
    /\ proj = AbsentProj
    /\ ~zprofile.exists

\* C3: whenever a non-dry-run ensure_flutter returns with the checkout
\* present, under any update policy, the export line is in the shell
\* startup file and the self-diagnostic command has been run.
C3_PathAndDoctorAfterPresent ==
    (LastStarted = "flutter" /\ pc = "create" /\ ~config.dry_run /\ sdk.state = "repo") =>
        /\ zprofile.exists
        /\ ContainsPathLine(zprofile.content)
        /\ "call:ensure_flutter_path" \in Range(log)
        /\ "flutter_doctor" \in Range(log)

\* C4: after a failed fast-forward-only merge, policy skip issues no reset,
\* leaves HEAD where it was when the merge failed and does not raise;
\* policy reset, when the stage returns, has HEAD at origin/<channel>.
C4_DivergenceReconciled ==
    (LastStarted = "flutter" /\ "fail:git_merge_ff" \in Range(log)) =>
        /\ config.flutter_update_mode = "skip" =>
                /\ "git_reset_hard" \notin Range(log)
                /\ sdk.head = headAtDiverge
                /\ raised = "none"
        /\ (config.flutter_update_mode = "reset" /\ raised = "none") =>
                /\ "git_reset_hard" \in Range(log)
                /\ sdk.head = sdk.origin

C4_Witness ==
    /\ LastStarted = "flutter"
    /\ pc = "create"
    /\ config.flutter_update_mode = "skip"
    /\ "fail:git_merge_ff" \in Range(log)
    /\ headAtDiverge = "cL"
    /\ sdk.head = "cL"
    /\ sdk.origin = "c1"

PathLineCount(z) == Cardinality({i \in 1..Len(z.content) : z.content[i] = PathLine})

\* C5: starting from a startup file that is absent or holds the export
\* line's text at most once, after any number of runs of
\* _ensure_flutter_path the file holds it exactly once: a run after the
\* first finds it and writes nothing.
C5_PathLineOnce ==
    /\ [](/\ PathLineCount(zprofile) <= 1
          /\ calls.path >= 1 => zprofile.exists /\ PathLineCount(zprofile) = 1)
    /\ [][calls.path >= 1 =>
            /\ zprofile' = zprofile
            /\ calls'.path > calls.path => "print:path_already" \in Range(log')]_vars

C5_Witness ==
    /\ calls.path >= 2
    /\ zprofile = File(<<"x", "NL", "NL", PathLine, "NL">>)
    /\ "print:path_already" \in Range(log)

CreateCalled == calls'.create = calls.create + 1

\* The first half of C6: a non-dry-run create_project that finds the
\* project path existing runs no generation command, changes nothing under
\* the path and returns.
ExistingPathNoOp ==
    (CreateCalled /\ ~config.dry_run /\ proj.kind # "absent") =>
        /\ proj' = proj
        /\ genAttempts' = genAttempts
        /\ "flutter_create" \notin Range(log')
        /\ raised' = "none"

\* C6 as stated: the existing path makes create_project a no-op, and two
\* invocations against one path make at most one generation attempt.
C6_AtMostOneAttempt ==
    /\ [][ExistingPathNoOp]_vars
    /\ [](calls.create <= 2 => genAttempts <= 1)

\* C6 as amended: the existing path makes create_project a no-op, and a
\* non-dry-run invocation that returns leaves the path existing after at
\* most one generation attempt, so that no later invocation attempts
\* another (a generation that failed and left no directory is attempted
\* again).
C6_ExistingPathNoOp ==
    [][/\ ExistingPathNoOp
       /\ (CreateCalled /\ ~config.dry_run /\ raised' = "none") =>
            /\ proj'.kind # "absent"
            /\ genAttempts' <= genAttempts + 1
            /\ genAttempts' = genAttempts + 1 <=> "flutter_create" \in Range(log')]_vars

C6_Witness ==
    /\ ~config.dry_run
    /\ calls.create = 2
    /\ genAttempts = 1
    /\ proj = GeneratedProj
    /\ log = <<"print:exists_skipping_create">>
    /\ raised = "none"

\* C7: in a non-dry-run bootstrap_project a failing step is only a warning:
\* all nine steps are executed and the stage does not raise.
C7_BootstrapNeverAborts ==
    (LastStarted = "bootstrap" /\ ~config.dry_run /\ pc # "returned" /\ pc # "exited") =>
        /\ raised = "none"
        /\ \A st \in Range(BootSteps) : st \in Range(log)

\* C8: once _modify_main_dart has been applied to an entry-point file,
\* applying it again leaves the content as it is; the edit finds its marker
\* and the file holds the import it inserted once.
C8_EditIdempotent ==
    (calls.dart >= 1 /\ proj.main.exists) =>
        /\ modify_main_dart(proj.main) = proj.main
        /\ ContentHasMarker(proj.main.content)

C8_Witness ==
    /\ calls.dart = 2
    /\ proj.main = File(<<"import_dart", "import_flutter", "import_dotenv",
                          "main_async_open", "dotenv_load">>)

Identifier(s) ==
    /\ s # <<>>
    /\ s[1] \in LowerLetters
    /\ \A i \in 1..Len(s) : s[i] \in LowerLetters \cup Digits \cup {"_"}

\* C9: for every non-empty project name the package identifier matches
\* ^[a-z][a-z0-9_]*$ or is "app": it is non-empty, starts with a lower-case
\* letter and neither starts nor ends with an underscore; "My Test App!"
\* gives "my_test_app".
C9_PackageIdentifier ==
    pc = "named" =>
        /\ Identifier(package_name) \/ package_name = App
        /\ package_name # <<>>
        /\ package_name[1] \in LowerLetters
        /\ package_name[Len(package_name)] # "_"
        /\ project_name = ExampleName => package_name = ExamplePackage

C9_Witness ==
    /\ pc = "named"
    /\ project_name = ExampleName
    /\ package_name = ExamplePackage

\* No letter and no digit in the name.
NonAlphanumeric(name) == \A i \in 1..Len(name) : name[i] \in {"_", "!", " "}

\* C10: a non-empty project name without any letter or digit (underscores
\* included) gives the package identifier "app".
C10_FallbackToken ==
    (pc = "named" /\ NonAlphanumeric(project_name)) => package_name = App

C10_Witness ==
    /\ pc = "named"
    /\ project_name = <<"_", "!", "_">>
    /\ package_name = App

----------------------------------------------------------------------------
\* Config(...) returned a Config
Constructed == pc = "constructed" /\ raised = "none"

\* C11: every successfully constructed Config has a non-empty platform
\* list, and every element of it, as the stages' membership tests and
\* platforms_csv see it, is literally a member of the enumeration
\* {ios, android, macos, linux, windows, web}.
C11_PlatformsInEnumeration ==
    Constructed =>
        /\ config.platforms # {}
        /\ config.platforms \subseteq valid_platforms
        /\ Range(platforms_csv(raw)) \subseteq valid_platforms

\* Index of the first token that is no member of the enumeration, 0 if none
FirstOutside(platforms) ==
    IF \E i \in 1..Len(platforms) : platforms[i] \notin valid_platforms
    THEN CHOOSE i \in 1..Len(platforms) :
            /\ platforms[i] \notin valid_platforms
            /\ \A j \in 1..(i - 1) : platforms[j] \in valid_platforms
    ELSE 0

\* C12: with a non-empty name, construction fails for an empty platform
\* list with "At least one platform must be specified" and for a list with
\* a token outside the enumeration with "Invalid platform: <token>" naming
\* the first such token; the two messages differ and no Config results.
C12_InvalidPlatformsRejected ==
    (pc = "constructed" /\ project_name # <<>>) =>
        /\ raw.platforms = <<>> =>
                /\ raised = "ValueError"
                /\ error_message = NoPlatformMessage
                /\ config = NoConfig
        /\ FirstOutside(raw.platforms) # 0 =>
                /\ raised = "ValueError"
                /\ error_message =
                      InvalidPlatformMessage(raw.platforms[FirstOutside(raw.platforms)])
                /\ error_message # NoPlatformMessage
                /\ config = NoConfig

\* C13 as stated: construction with an empty project name fails, whatever
\* the other fields, with the message "project name required".
C13_ProjectNameRequired ==
    (pc = "constructed" /\ project_name = <<>>) =>
        /\ raised = "ValueError"
        /\ error_message = <<"project name required">>
        /\ config = NoConfig

\* C13 (amended): construction with an empty project name fails, whatever
\* the other fields (the name is checked first), with the message
\* "Project name cannot be empty", and no Config results.
C13_EmptyNameRejected ==
    (pc = "constructed" /\ project_name = <<>>) =>
        /\ raised = "ValueError"
        /\ error_message = EmptyNameMessage
        /\ config = NoConfig

\* An empty name together with an empty platform list and a plugin
\* language outside its enumeration: the name is what is reported.
C13_Witness ==
    /\ pc = "constructed"
    /\ project_name = <<>>
    /\ raw.platforms = <<>>
    /\ raw.template = "plugin"
    /\ raw.ios_language \notin IosLanguages
    /\ error_message = EmptyNameMessage

----------------------------------------------------------------------------
\* run() returned: every stage ran and none raised
RunSucceeded == raised = "none" /\ started = StageOrder

\* C14: the process exits with 0 exactly when the run succeeds and with 1
\* on a validation failure of the input, a stage's fatal error or an
\* interrupt; it exits with no other code.
C14_ExitCodes ==
    pc = "exited" =>
        /\ exit_code \in {0, 1}
        /\ exit_code = 0 <=> RunSucceeded

Count(q, x) == Cardinality({i \in 1..Len(q) : q[i] = x})

\* The operator's interrupt has arrived: the stage it falls in has started
Interrupted == sigint # "none" /\ sigint \in Range(started)

\* C15: an interrupt arriving inside a stage is not swallowed or re-typed
\* by the stage wrappers or by run(): no later stage starts, it reaches
\* cli.main as KeyboardInterrupt, which prints the interrupted-by-user
\* line (not the failure line), exits non-zero, and prints a stack trace
\* only if verbose was requested.
C15_InterruptReachesTop ==
    Interrupted =>
        /\ raised = "KeyboardInterrupt"
        /\ LastStarted = sigint
        /\ pc \in {"raised", "exited"}
        /\ pc = "exited" =>
              /\ exit_code = 1
              /\ Count(console, "print:interrupted_by_user") = 1
              /\ Count(console, "print:setup_failed") = 0
              /\ Count(console, "print:unexpected_error") = 0
              /\ Count(console, "print:completed_successfully") = 0
              /\ Count(console, "print:traceback") > 0 => raw.verbose

C15_Witness ==
    /\ pc = "exited"
    /\ sigint = "create"
    /\ started = <<"prerequisites", "flutter", "create">>
    /\ raw.verbose
    /\ exit_code = 1
    /\ Count(console, "print:interrupted_by_user") = 1

\* The typed error of each stage
TypedError ==
    [prerequisites |-> PE, flutter |-> FIE, create |-> PCE,
     bootstrap |-> "FlutterSetupError"]

\* C16: a fatal failure in a stage reaches the top level as that stage's
\* typed error, the user-facing failure message is printed once, and the
\* process exits non-zero.
C16_FailurePrintedOnce ==
    (pc = "exited" /\ started # <<>> /\ raised \notin {"none", "KeyboardInterrupt"}) =>
        /\ raised = TypedError[LastStarted]
        /\ Count(console, "print:setup_failed") = 1
        /\ exit_code # 0

----------------------------------------------------------------------------
\* The log holds the tokens of q from position i on
At(i, q) == i + Len(q) - 1 <= Len(log) /\ \A k \in 1..Len(q) : log[i + k - 1] = q[k]

InLog(x) == x \in Range(log)

LaterSteps ==
    {"brew_version", "brew_install_script", "brew_shellenv", "pod_repo_update"}
    \cup {InstallTok[p] : p \in DOMAIN InstallTok}

\* C17: if xcode-select -p reports the toolchain absent, its installation
\* is triggered and check_and_install raises PrerequisitesError whether or
\* not the install command succeeded, and no later step (Homebrew check,
\* package installs, platform tooling) is executed.
C17_XcodeAbsentAborts ==
    (pc = "prereq_done" /\ InLog("fail:xcode_select_p")) =>
        /\ InLog("xcode_select_install")
        /\ raised = PE
        /\ Range(log) \cap LaterSteps = {}

C17_Witness ==
    /\ pc = "prereq_done"
    /\ InLog("fail:xcode_select_p")
    /\ InLog("print:install_initiated")
    /\ raised = PE

AlreadyInstalled == <<"fail:brew_install", "brew_list", "print:already_installed">>
BothFailed == <<"fail:brew_install", "brew_list", "fail:brew_list">>

RequiredToks == {InstallTok[RequiredPackages[k]] : k \in 1..Len(RequiredPackages)}

\* C18: for each required package, a failed install whose `brew list`
\* query succeeds counts as success: the next package is processed (after
\* the last one the installer goes on without raising); PrerequisitesError
\* is raised for a required package exactly when both commands fail.
C18_AlreadyInstalledIsSuccess ==
    pc = "prereq_done" =>
        /\ \A k \in 1..Len(RequiredPackages) : \A i \in 1..Len(log) :
              (log[i] = InstallTok[RequiredPackages[k]] /\ At(i + 1, AlreadyInstalled)) =>
                  IF k < Len(RequiredPackages)
                  THEN At(i + 4, <<InstallTok[RequiredPackages[k + 1]]>>)
                  ELSE raised = "none"
        /\ \A i \in 1..Len(log) :
              (log[i] \in RequiredToks /\ At(i + 1, BothFailed)) =>
                  raised = PE /\ Len(log) = i + 3
        /\ (raised = PE /\ Range(log) \cap RequiredToks # {}) =>
              /\ Len(log) >= 4
              /\ log[Len(log) - 3] \in RequiredToks
              /\ At(Len(log) - 2, BothFailed)

C18_Witness ==
    /\ pc = "prereq_done"
    /\ \E i \in 1..Len(log) :
          /\ log[i] = InstallTok["git"]
          /\ At(i + 1, AlreadyInstalled)
          /\ At(i + 4, <<InstallTok["cocoapods"]>> \o BothFailed)
    /\ raised = PE

\* Steps 1-3 succeeded: the last required package is installed or found
Steps123Succeeded ==
    \E i \in 1..Len(log) :
        /\ log[i] = InstallTok[RequiredPackages[Len(RequiredPackages)]]
        /\ At(i + 1, <<"print:installed">>) \/ At(i + 1, AlreadyInstalled)

\* C19: whatever the Android cask installs, their `brew list --cask`
\* queries and `pod repo update` return, step 4 never raises: every
\* Android package is attempted even after an earlier one failed, and
\* check_and_install returns normally once steps 1-3 have succeeded.
C19_PlatformToolsNeverRaise ==
    (pc = "prereq_done" /\ Steps123Succeeded) =>
        /\ raised = "none"
        /\ "android" \in config.platforms =>
              \A k \in 1..Len(AndroidPackages) : InLog(InstallTok[AndroidPackages[k]])
        /\ "ios" \in config.platforms => InLog("pod_repo_update")

C19_Witness ==
    /\ pc = "prereq_done"
    /\ config.platforms = {"android", "ios"}
    /\ \E i \in 1..Len(log) :
          /\ log[i] = InstallTok["temurin"]
          /\ At(i + 1, <<"fail:brew_install", "brew_list_cask", "fail:brew_list_cask">>)
    /\ InLog(InstallTok["android-commandlinetools"])
    /\ InLog("fail:pod_repo_update")
    /\ raised = "none"

----------------------------------------------------------------------------
\* The commands of the SDK manager whose failure the claim calls fatal
FatalFailures ==
    {"fail:git_clone", "fail:git_fetch", "fail:git_checkout_b", "fail:git_reset_hard"}

\* C20: in the SDK manager a failed clone, fetch, checkout (its
\* create-branch fallback failing too) or hard reset makes ensure_flutter
\* raise FlutterInstallationError; a failed fast-forward merge and a failed
\* or non-zero `flutter doctor` never do: without one of the fatal failures
\* (or a failed removal of the old checkout) ensure_flutter returns.
C20_FatalAndHandledFailures ==
    LastStarted = "flutter" =>
        /\ Range(log) \cap FatalFailures # {} => raised = FIE
        /\ Range(log) \cap (FatalFailures \cup {"fail:rmtree"}) = {} => raised = "none"

C20_Witness ==
    /\ LastStarted = "flutter"
    /\ InLog("fail:git_checkout")
    /\ InLog("fail:git_merge_ff")
    /\ InLog("doctor:rc1")
    /\ raised = "none"

----------------------------------------------------------------------------
UpdateCommands ==
    {"git_fetch", "git_checkout", "git_checkout_b", "git_merge_ff", "git_reset_hard"}

\* A non-dry-run call of ensure_flutter, as a step
EnsureFlutterRuns == pc = "flutter" /\ started' # started /\ ~config.dry_run

\* Positions of a token in the log the step leaves
Positions(x) == {i \in 1..Len(log') : log'[i] = x}

\* C21: when the checkout directory is absent ensure_flutter performs
\* exactly one shallow clone and no fetch, checkout, merge or reset; when a
\* checkout is present and the policy is reclone, the tree is deleted first
\* and then cloned, again without fetch, checkout, merge or reset; when it
\* is present and the policy is reset or skip, nothing is cloned and
\* nothing deleted.
C21_CheckoutTransitions ==
    [][EnsureFlutterRuns =>
        /\ sdk = AbsentSdk =>
              /\ Cardinality(Positions("git_clone")) = 1
              /\ Positions("rmtree") = {}
              /\ Range(log') \cap UpdateCommands = {}
        /\ (SdkHasGit(sdk) /\ config.flutter_update_mode = "reclone") =>
              /\ Cardinality(Positions("rmtree")) = 1
              /\ Range(log') \cap UpdateCommands = {}
              /\ \A i \in Positions("git_clone") : \A j \in Positions("rmtree") : j < i
              /\ Positions("fail:rmtree") = {} => Cardinality(Positions("git_clone")) = 1
        /\ (SdkHasGit(sdk) /\ config.flutter_update_mode \in {"reset", "skip"}) =>
              /\ Positions("git_clone") = {}
              /\ Positions("rmtree") = {}
    ]_vars

C21_Witness ==
    /\ LastStarted = "flutter"
    /\ config.flutter_update_mode = "reclone"
    /\ \E i, j \in 1..Len(log) : i < j /\ log[i] = "rmtree" /\ log[j] = "git_clone"
    /\ SdkHasGit(sdk)
    /\ raised = "none"

----------------------------------------------------------------------------
\* `flutter doctor -v` was executed by the stage whose log this is
DoctorRan == LastStarted = "flutter" /\ (InLog("doctor:rc0") \/ InLog("doctor:rc1"))

\* Its output, on either stream, mentions unaccepted Android licenses
LicensesMentioned == InLog("doctor:stderr_licenses") \/ InLog("doctor:stdout_licenses")

\* C22: once the self-diagnostic has run, a mention of unaccepted Android
\* licenses in its output, whatever its exit code and whichever stream
\* carries it, makes the message naming the manual acceptance command
\* appear when android is a requested platform; without android the
\* message does not appear; no license-acceptance command is executed.
C22_LicenseHint ==
    DoctorRan =>
        /\ (LicensesMentioned /\ "android" \in config.platforms) =>
              InLog("print:licenses_hint")
        /\ "android" \notin config.platforms => ~InLog("print:licenses_hint")
        /\ ~InLog("flutter_doctor_android_licenses")

----------------------------------------------------------------------------
\* C23: over a whole run the SDK checkout is created, deleted or modified
\* only by the SDK manager's stage; the project directory comes into
\* being only in the project creator's stage and what exists there is
\* changed only by the bootstrapper's stage; the prerequisite stage writes
\* to neither; the Config is never assigned to.
C23_ResourceOwnership ==
    [][/\ sdk' # sdk => pc = "flutter"
       /\ proj' # proj => pc \in {"create", "bootstrap"}
       /\ (proj.kind = "absent" /\ proj'.kind # "absent") => pc = "create"
       /\ (proj.kind # "absent" /\ proj' # proj) => pc = "bootstrap"
       /\ config' = config
      ]_vars

C23_Witness ==
    /\ pc = "exited"
    /\ exit_code = 0
    /\ ~config.dry_run
    /\ SdkHasGit(sdk)
    /\ genAttempts = 1
    /\ proj.kind = "dir"
    /\ proj.fixed = BootFiles

----------------------------------------------------------------------------
\* A line that opens or is the entry function
IsEntry(line) == line \in {"main_open", "main_inline", "main_arrow"}

\* _modify_main_dart is applied to an existing entry-point file without
\* the marker
EditApplies ==
    /\ pc = "dart"
    /\ calls'.dart = calls.dart + 1
    /\ proj.main.exists
    /\ \E i \in 1..Len(proj.main.content) : IsEntry(proj.main.content[i])
    /\ ~ContentHasMarker(proj.main.content)

\* Index of the first framework import proper in a content, 0 if none
FrameworkImport(lines) ==
    IF \E i \in 1..Len(lines) : lines[i] = "import_flutter"
    THEN CHOOSE i \in 1..Len(lines) :
            /\ lines[i] = "import_flutter"
            /\ \A j \in 1..(i - 1) : lines[j] # "import_flutter"
    ELSE 0

\* The dotenv load is the first statement of the entry function
LoadsFirst(lines) ==
    \E i \in 1..(Len(lines) - 1) :
        /\ lines[i] = "main_async_open"
        /\ lines[i + 1] \in {"dotenv_load", "load_inline"}

\* C24: applied to an entry-point file without the marker, the edit puts
\* the dotenv import immediately after the first framework import line
\* (at the top if there is none) and rewrites the opening of the entry
\* function so that the dotenv load is its first statement; afterwards the
\* file holds both the import and the load.
C24_ImportAndLoadInserted ==
    [][EditApplies =>
        LET after == proj'.main.content
            k == FrameworkImport(after)
        IN  /\ IF k = 0
               THEN after[1] = "import_dotenv"
               ELSE k < Len(after) /\ after[k + 1] = "import_dotenv"
            /\ LoadsFirst(after)
            /\ "import_dotenv" \in Range(after)
            /\ Range(after) \cap {"dotenv_load", "load_inline"} # {}
    ]_vars

----------------------------------------------------------------------------
\* The project creator of this non-dry-run run found the path and skipped
\* the generation
CreateSkipped == ~config.dry_run /\ "create" \in Range(started) /\ genAttempts = 0

\* A bootstrap step reported its files written in the log the step leaves
StepDone(st) == \E i \in 1..(Len(log') - 1) : log'[i] = st /\ log'[i + 1] = "print:created"

\* C25: in a non-dry-run run the bootstrapper is what follows whenever the
\* project creator returns without raising, also when it skipped the
\* generation because the path existed; it then replaces the files found
\* there (editor settings, task-runner file, placeholder tests, analysis
\* configuration, CI workflow, runtime-configuration file, README) by its
\* fixed contents, all of them when it returns.
C25_BootstrapOverwritesExisting ==
    /\ []((~config.dry_run /\ LastStarted = "create" /\ raised = "none") => pc = "bootstrap")
    /\ [][(pc = "bootstrap" /\ CreateSkipped /\ started' # started) =>
            /\ \A f \in BootFiles :
                  StepDone(f) => f \in proj'.fixed /\ f \notin proj'.other
            /\ raised' = "none" => proj'.fixed = BootFiles /\ proj'.other = {}
         ]_vars

\* The creator skipped a directory holding other versions of all these
\* files; the bootstrapper replaced them up to the README, whose write
\* failed.
C25_Witness ==
    /\ LastStarted = "bootstrap"
    /\ CreateSkipped
    /\ proj.other = {"readme"}
    /\ proj.fixed = BootFiles \ {"readme"}

====
